---------------------------- MODULE Spec2Model ----------------------------
(***************************************************************************)
(* Product catalogue server: the storage layer (MemStorage and             *)
(* DatabaseStorage behind IStorage), the facet queries, the product        *)
(* listing and the wishlist handlers of registerRoutes.                    *)
(*                                                                         *)
(* Strings are sequences of characters, so that toLowerCase, includes,     *)
(* the default Array.sort order (UTF-16 code units) and localeCompare are  *)
(* computed and not assumed.  An optional value (a query parameter that    *)
(* may be absent, a filter that may be undefined) is a set with at most    *)
(* one element: {} is undefined.                                           *)
(***************************************************************************)
EXTENDS Integers, Sequences, FiniteSets, TLC

(***************************************************************************)
(* Bounds of the model.                                                    *)
(***************************************************************************)
\* createProduct calls of one run (the ids they assign follow the sample's)
MaxCreates == 2
\* addToWishlist calls of one run
MaxAdds == 2

(***************************************************************************)
(* Strings.                                                                *)
(***************************************************************************)
Chars == {"B", "a", "b", "l"}

\* UTF-16 code unit of a character
CharCode(c) ==
    CASE c = "B" -> 66
      [] c = "a" -> 97
      [] c = "b" -> 98
      [] c = "l" -> 108

\* String.prototype.toLowerCase, one character
LowerChar(c) == IF c = "B" THEN "b" ELSE c

ToLowerCase(s) == [i \in 1..Len(s) |-> LowerChar(s[i])]

\* String.prototype.includes
Includes(s, q) ==
    \E i \in 0..(Len(s) - Len(q)) : SubSeq(s, i + 1, i + Len(q)) = q

MinOf(a, b) == IF a < b THEN a ELSE b
MaxOf(a, b) == IF a > b THEN a ELSE b

\* s < t in the order Array.prototype.sort() uses without a comparator:
\* lexicographic by code unit, a proper prefix first
CodeUnitLess(s, t) ==
    \E k \in 0..MinOf(Len(s), Len(t)) :
        /\ \A j \in 1..k : s[j] = t[j]
        /\ \/ k = Len(s) /\ k < Len(t)
           \/ /\ k < Len(s)
              /\ k < Len(t)
              /\ CharCode(s[k + 1]) < CharCode(t[k + 1])

\* a.localeCompare(b) < 0: letters first without regard to case, and
\* between strings with the same letters the lower-case one first
LocaleLess(s, t) ==
    \/ CodeUnitLess(ToLowerCase(s), ToLowerCase(t))
    \/ /\ ToLowerCase(s) = ToLowerCase(t)
       /\ \E k \in 1..Len(s) :
            /\ \A j \in 1..(k - 1) : s[j] = t[j]
            /\ s[k] # t[k]
            /\ s[k] = LowerChar(s[k])

\* the strings of the model
Empty == << >>
All == <<"a", "l", "l">>
Str_a == <<"a">>
Str_B == <<"B">>
Str_b == <<"b">>
Str_ab == <<"a", "b">>

\* JavaScript truthiness of an optional string: undefined and "" are falsy
Truthy(opt) == opt # {} /\ opt # {Empty}

\* the string held by a truthy optional
Val(opt) == CHOOSE s \in opt : TRUE

(***************************************************************************)
(* Arrays of strings: new Set(...) keeps the first occurrence of each      *)
(* value in insertion order, Array.prototype.sort() orders by code unit.   *)
(***************************************************************************)
\* the elements of a sequence
Range(seq) == {seq[i] : i \in 1..Len(seq)}

\* Array.from(new Set(arr))
RECURSIVE Distinct(_)
Distinct(arr) ==
    IF arr = << >> THEN << >>
    ELSE LET front == Distinct(SubSeq(arr, 1, Len(arr) - 1))
             last == arr[Len(arr)]
         IN  IF last \in Range(front) THEN front ELSE Append(front, last)

\* arr.sort() for an array of distinct strings
RECURSIVE SortStrings(_)
SortStrings(arr) ==
    IF arr = << >> THEN << >>
    ELSE LET m == CHOOSE i \in 1..Len(arr) :
                    \A j \in 1..Len(arr) : ~CodeUnitLess(arr[j], arr[i])
             rest == [k \in 1..(Len(arr) - 1) |->
                        IF k < m THEN arr[k] ELSE arr[k + 1]]
         IN  <<arr[m]>> \o SortStrings(rest)

(***************************************************************************)
(* JavaScript numbers as the listing handler meets them: an integer or NaN.*)
(***************************************************************************)
Int_(n) == [nan |-> FALSE, v |-> n]
NaN == [nan |-> TRUE, v |-> 0]

\* parseInt of a query value: text is [numeric |-> BOOLEAN, n |-> Int], the
\* digits of a numeric value or any text without leading digits
parseInt(text) == IF text.numeric THEN Int_(text.n) ELSE NaN

Times(a, b) == IF a.nan \/ b.nan THEN NaN ELSE Int_(a.v * b.v)
Minus(a, b) == IF a.nan \/ b.nan THEN NaN ELSE Int_(a.v - b.v)

\* Array.prototype.slice(start): start is an optional number
SliceFrom(arr, start) ==
    IF start = {} THEN arr
    ELSE LET n == CHOOSE x \in start : TRUE
             rel == IF n.nan THEN 0 ELSE n.v
             k == IF rel < 0 THEN MaxOf(Len(arr) + rel, 0)
                  ELSE MinOf(rel, Len(arr))
         IN  SubSeq(arr, k + 1, Len(arr))

\* Array.prototype.slice(0, end): end is an optional number
SliceTo(arr, end) ==
    IF end = {} THEN arr
    ELSE LET n == CHOOSE x \in end : TRUE
             rel == IF n.nan THEN 0 ELSE n.v
             k == IF rel < 0 THEN MaxOf(Len(arr) + rel, 0)
                  ELSE MinOf(rel, Len(arr))
         IN  SubSeq(arr, 1, k)

(***************************************************************************)
(* State.                                                                  *)
(***************************************************************************)
VARIABLES
    impl,               \* "mem": MemStorage, "db": DatabaseStorage
    products,           \* product rows, in insertion order
    currentProductId,   \* next product id
    now,                \* the clock new Date() reads, in milliseconds
    wishlists,          \* wishlist rows, in insertion order
    currentWishlistId,  \* next wishlist id
    pc,                 \* per request slot: where its handler stands
    loc,                \* per request slot: the handler's locals
    resp,               \* the response sent last, with the request it answers
    users,              \* user rows, in insertion order
    currentUserId,      \* next user id
    migrations,         \* the filenames in the migrations table, by id
    applied,            \* per migration: how often its SQL was committed
    mockFeedback        \* the feedback records of the routes, in array order

\* the user store
userVars == <<users, currentUserId>>

\* the migrations table with the schema it describes, and the feedback array
serverVars == <<migrations, applied, mockFeedback>>

vars == <<impl, products, currentProductId, now, wishlists, currentWishlistId,
          pc, loc, resp, userVars, serverVars>>

\* request slots: handlers that may be in flight together
Reqs == {1, 2}

\* req.session.userId: 0 is a request without a session
SessionUsers == {0, 1, 2}

(***************************************************************************)
(* InsertProduct bodies.  The first two stand for the sample catalogue of  *)
(* initializeSampleData.                                                   *)
(***************************************************************************)
Input1 ==
    [name |-> Str_ab, code |-> Str_a, category |-> Str_a,
     finish |-> Str_a, material |-> {Str_a}]
Input2 ==
    [name |-> Str_B, code |-> Str_B, category |-> Str_B,
     finish |-> Str_a, material |-> {}]
Input3 ==
    [name |-> Str_ab, code |-> Str_ab, category |-> Str_a,
     finish |-> All, material |-> {Str_B}]
Input4 ==
    [name |-> Str_b, code |-> Str_a, category |-> Str_B,
     finish |-> All, material |-> {Str_a}]
Input5 ==
    [name |-> Str_a, code |-> Str_b, category |-> Empty,
     finish |-> Str_a, material |-> {Empty}]

ProductInputs == {Input1, Input2, Input3, Input4, Input5}

\* the Product built from an InsertProduct: material: insertProduct.material || ""
NewProduct(id, input, date) ==
    [id |-> id, name |-> input.name, code |-> input.code,
     category |-> input.category, finish |-> input.finish,
     material |-> IF Truthy(input.material) THEN Val(input.material) ELSE Empty,
     createdAt |-> date]

SampleProducts == <<NewProduct(1, Input1, 0), NewProduct(2, Input2, 0)>>

(***************************************************************************)
(* Facet queries.  rows is the product table, filters a record of optional *)
(* strings.                                                                *)
(***************************************************************************)
\* the values of one field over an array of products, in array order
Project(rows, field) == [i \in 1..Len(rows) |-> rows[i][field]]

\* the non-empty values of an array (if (product.category) ... / filter(Boolean))
NonEmpty(arr) == SelectSeq(arr, LAMBDA x : x # Empty)

\* a filter that keeps no product when the value is not given
FilterByRequired(rows, field, opt) ==
    IF Truthy(opt)
    THEN SelectSeq(rows, LAMBDA p : p[field] = Val(opt))
    ELSE << >>

\* MemStorage: products.filter(p => p[field] === value) when value is truthy
FilterBy(rows, field, opt) ==
    IF Truthy(opt)
    THEN SelectSeq(rows, LAMBDA p : p[field] = Val(opt))
    ELSE rows

\* getAvailableCategories that forgets its material filter
MemGetAvailableCategoriesNoMaterial(rows, filters) ==
    LET byFinish == FilterBy(rows, "finish", filters.finish)
    IN  SortStrings(Distinct(NonEmpty(Project(byFinish, "category"))))

MemGetAvailableCategories(rows, filters) ==
    LET byFinish == FilterBy(rows, "finish", filters.finish)
        byMaterial == FilterBy(byFinish, "material", filters.material)
    IN  SortStrings(Distinct(NonEmpty(Project(byMaterial, "category"))))

MemGetAvailableFinishes(rows, filters) ==
    LET byCategory == FilterBy(rows, "category", filters.category)
        byMaterial == FilterBy(byCategory, "material", filters.material)
    IN  SortStrings(Distinct(NonEmpty(Project(byMaterial, "finish"))))

MemGetAvailableMaterials(rows, filters) ==
    LET byCategory == FilterBy(rows, "category", filters.category)
        byFinish == FilterBy(byCategory, "finish", filters.finish)
    IN  SortStrings(Distinct(NonEmpty(Project(byFinish, "material"))))

\* DatabaseStorage: the conditions pushed for the truthy filters, as a set of
\* <<column, value>> pairs
Conditions(filters, fields) ==
    {<<f, Val(filters[f])>> : f \in {g \in fields : Truthy(filters[g])}}

\* SELECT ... FROM products WHERE and(...conditions)
Where(rows, conditions) ==
    SelectSeq(rows, LAMBDA p : \A c \in conditions : p[c[1]] = c[2])

\* db.selectDistinct({column}).from(products).where(...), then
\* map, filter(Boolean), sort()
SelectDistinctSorted(rows, column, conditions) ==
    SortStrings(NonEmpty(Distinct(Project(Where(rows, conditions), column))))

DbGetAvailableCategories(rows, filters) ==
    SelectDistinctSorted(rows, "category",
                         Conditions(filters, {"finish", "material"}))

DbGetAvailableFinishes(rows, filters) ==
    SelectDistinctSorted(rows, "finish",
                         Conditions(filters, {"category", "material"}))

DbGetAvailableMaterials(rows, filters) ==
    SelectDistinctSorted(rows, "material",
                         Conditions(filters, {"category", "finish"}))

\* MemStorage.getCategories / getFinishes / getMaterials: the truthy values
\* of the field over all products, through a Set, unsorted
MemGetCategories(rows) == Distinct(NonEmpty(Project(rows, "category")))
MemGetFinishes(rows) == Distinct(NonEmpty(Project(rows, "finish")))
MemGetMaterials(rows) == Distinct(NonEmpty(Project(rows, "material")))

\* DatabaseStorage.getCategories / getFinishes / getMaterials:
\* db.selectDistinct({column}).from(products), then map, filter(Boolean)
DbGetCategories(rows) == NonEmpty(Distinct(Project(rows, "category")))
DbGetFinishes(rows) == NonEmpty(Distinct(Project(rows, "finish")))
DbGetMaterials(rows) == NonEmpty(Distinct(Project(rows, "material")))

\* storage.getCategories / getFinishes / getMaterials of the chosen store
getValues(store, facet, rows) ==
    CASE store = "mem" /\ facet = "category" -> MemGetCategories(rows)
      [] store = "mem" /\ facet = "finish" -> MemGetFinishes(rows)
      [] store = "mem" /\ facet = "material" -> MemGetMaterials(rows)
      [] store = "db" /\ facet = "category" -> DbGetCategories(rows)
      [] store = "db" /\ facet = "finish" -> DbGetFinishes(rows)
      [] store = "db" /\ facet = "material" -> DbGetMaterials(rows)

\* storage.getAvailableCategories / Finishes / Materials of the chosen store
getAvailable(store, facet, rows, filters) ==
    CASE store = "mem" /\ facet = "category" ->
            MemGetAvailableCategories(rows, filters)
      [] store = "mem" /\ facet = "finish" ->
            MemGetAvailableFinishes(rows, filters)
      [] store = "mem" /\ facet = "material" ->
            MemGetAvailableMaterials(rows, filters)
      [] store = "db" /\ facet = "category" ->
            DbGetAvailableCategories(rows, filters)
      [] store = "db" /\ facet = "finish" ->
            DbGetAvailableFinishes(rows, filters)
      [] store = "db" /\ facet = "material" ->
            DbGetAvailableMaterials(rows, filters)

\* a route that passes the parameter on as it came
AllKept(opt) == opt

\* the routes' normalisation: x === "all" ? undefined : x
AllToUndefined(opt) == IF opt = {All} THEN {} ELSE opt

Facets == {"category", "finish", "material"}

(***************************************************************************)
(* Product listing queries.  The result of a page query is [ok, rows]: ok  *)
(* is FALSE when the store throws.  A count query returns a number.        *)
(***************************************************************************)
Ok(rows) == [ok |-> TRUE, rows |-> rows]
Thrown == [ok |-> FALSE, rows |-> << >>]

\* a comparator whose newest puts the oldest first
ProductLessOldestFirst(sortBy, a, b) ==
    CASE sortBy = {"code"} -> LocaleLess(a.code, b.code)
      [] sortBy = {"category"} -> LocaleLess(a.category, b.category)
      [] sortBy = {"newest"} -> a.createdAt - b.createdAt < 0
      [] OTHER -> LocaleLess(a.name, b.name)

\* the comparator of filterProducts' switch (filters.sortBy): a sorts before b
ProductLess(sortBy, a, b) ==
    CASE sortBy = {"code"} -> LocaleLess(a.code, b.code)
      [] sortBy = {"category"} -> LocaleLess(a.category, b.category)
      [] sortBy = {"newest"} -> b.createdAt - a.createdAt < 0
      [] OTHER -> LocaleLess(a.name, b.name)

\* Array.prototype.sort(comparator): stable, equal rows keep their order
RECURSIVE SortProducts(_, _)
SortProducts(rows, sortBy) ==
    IF rows = << >> THEN << >>
    ELSE LET front == SortProducts(SubSeq(rows, 1, Len(rows) - 1), sortBy)
             x == rows[Len(rows)]
             after == {i \in 1..Len(front) : ProductLess(sortBy, x, front[i])}
             at == IF after = {} THEN Len(front) + 1
                   ELSE CHOOSE i \in after : \A j \in after : i <= j
         IN  SubSeq(front, 1, at - 1) \o <<x>> \o SubSeq(front, at, Len(front))

\* the product matches the search text in name, code, category or finish
Matches(p, query) ==
    LET lowercaseQuery == ToLowerCase(query)
    IN  \/ Includes(ToLowerCase(p.name), lowercaseQuery)
        \/ Includes(ToLowerCase(p.code), lowercaseQuery)
        \/ Includes(ToLowerCase(p.category), lowercaseQuery)
        \/ Includes(ToLowerCase(p.finish), lowercaseQuery)

MemSearchProducts(rows, query, limit, offset) ==
    LET results == SelectSeq(rows, LAMBDA p : Matches(p, query))
    IN  Ok(SliceTo(SliceFrom(results, offset), limit))

\* getSearchCount that forgets the finish column
MemGetSearchCountNoFinish(rows, query) ==
    Len(SelectSeq(rows, LAMBDA p :
            \/ Includes(ToLowerCase(p.name), ToLowerCase(query))
            \/ Includes(ToLowerCase(p.code), ToLowerCase(query))
            \/ Includes(ToLowerCase(p.category), ToLowerCase(query))))

MemGetSearchCount(rows, query) ==
    Len(SelectSeq(rows, LAMBDA p : Matches(p, query)))

\* filterProducts whose offset is one too far
MemFilterProductsSkipFirst(rows, filters) ==
    LET byCategory == FilterBy(rows, "category", filters.category)
        byFinish == FilterBy(byCategory, "finish", filters.finish)
        byMaterial == FilterBy(byFinish, "material", filters.material)
        sorted == SortProducts(byMaterial, filters.sortBy)
    IN  Ok(SliceTo(SliceFrom(sorted, {Int_(1)}), filters.limit))

MemFilterProducts(rows, filters) ==
    LET byCategory == FilterBy(rows, "category", filters.category)
        byFinish == FilterBy(byCategory, "finish", filters.finish)
        byMaterial == FilterBy(byFinish, "material", filters.material)
        sorted == SortProducts(byMaterial, filters.sortBy)
    IN  Ok(SliceTo(SliceFrom(sorted, filters.offset), filters.limit))

\* getFilterCount that forgets its finish filter
MemGetFilterCountNoFinish(rows, filters) ==
    LET byCategory == FilterBy(rows, "category", filters.category)
        byMaterial == FilterBy(byCategory, "material", filters.material)
    IN  Len(byMaterial)

MemGetFilterCount(rows, filters) ==
    LET byCategory == FilterBy(rows, "category", filters.category)
        byFinish == FilterBy(byCategory, "finish", filters.finish)
        byMaterial == FilterBy(byFinish, "material", filters.material)
    IN  Len(byMaterial)

\* query.limit(limit).offset(offset) on an ordered result: PostgreSQL rejects
\* a negative LIMIT or OFFSET and a value that is no integer (NaN)
LimitOffset(rows, limit, offset) ==
    LET bad(opt) == opt # {} /\ \E n \in opt : n.nan \/ n.v < 0
        from == IF offset = {} THEN 0 ELSE (CHOOSE n \in offset : TRUE).v
        count == IF limit = {} THEN Len(rows) ELSE (CHOOSE n \in limit : TRUE).v
    IN  IF bad(limit) \/ bad(offset) THEN Thrown
        ELSE Ok(SubSeq(rows, from + 1, MinOf(from + count, Len(rows))))

DbSearchProducts(rows, query, limit, offset) ==
    LimitOffset(SelectSeq(rows, LAMBDA p : Matches(p, query)), limit, offset)

DbGetSearchCount(rows, query) ==
    Len(SelectSeq(rows, LAMBDA p : Matches(p, query)))

DbFilterProducts(rows, filters) ==
    LET conditions == Conditions(filters, Facets)
        ordered == SortProducts(Where(rows, conditions), filters.sortBy)
    IN  LimitOffset(ordered, filters.limit, filters.offset)

DbGetFilterCount(rows, filters) ==
    Len(Where(rows, Conditions(filters, Facets)))

searchProducts(store, rows, query, limit, offset) ==
    IF store = "mem" THEN MemSearchProducts(rows, query, limit, offset)
    ELSE DbSearchProducts(rows, query, limit, offset)

getSearchCount(store, rows, query) ==
    IF store = "mem" THEN MemGetSearchCount(rows, query)
    ELSE DbGetSearchCount(rows, query)

filterProducts(store, rows, filters) ==
    IF store = "mem" THEN MemFilterProducts(rows, filters)
    ELSE DbFilterProducts(rows, filters)

getFilterCount(store, rows, filters) ==
    IF store = "mem" THEN MemGetFilterCount(rows, filters)
    ELSE DbGetFilterCount(rows, filters)

(***************************************************************************)
(* Wishlist queries and updates.  A wishlist row is [id, userId,           *)
(* productId].                                                             *)
(***************************************************************************)
\* a && b of two drizzle SQL conditions: an object is truthy, so the value of
\* the expression is its second operand
AndAnd(a, b) == b

\* eq(wishlists[column], value)
Eq(column, value) == {<<column, value>>}

MemIsInWishlist(rows, userId, productId) ==
    \E i \in 1..Len(rows) :
        rows[i].userId = userId /\ rows[i].productId = productId

DbIsInWishlist(rows, userId, productId) ==
    LET condition == AndAnd(Eq("userId", userId), Eq("productId", productId))
    IN  Where(rows, condition) # << >>

isInWishlist(store, rows, userId, productId) ==
    IF store = "mem" THEN MemIsInWishlist(rows, userId, productId)
    ELSE DbIsInWishlist(rows, userId, productId)

\* [deleted, rows]: whether a row was deleted and the rows left
MemRemoveFromWishlist(rows, userId, productId) ==
    LET found == {i \in 1..Len(rows) :
                    rows[i].userId = userId /\ rows[i].productId = productId}
    IN  IF found = {} THEN [deleted |-> FALSE, rows |-> rows]
        ELSE LET first == CHOOSE i \in found : \A j \in found : i <= j
             IN  [deleted |-> TRUE,
                  rows |-> SubSeq(rows, 1, first - 1)
                             \o SubSeq(rows, first + 1, Len(rows))]

DbRemoveFromWishlist(rows, userId, productId) ==
    LET condition == AndAnd(Eq("userId", userId), Eq("productId", productId))
        hit == Where(rows, condition)
    IN  [deleted |-> Len(hit) > 0,
         rows |-> SelectSeq(rows, LAMBDA w : w \notin Range(hit))]

removeFromWishlist(store, rows, userId, productId) ==
    IF store = "mem" THEN MemRemoveFromWishlist(rows, userId, productId)
    ELSE DbRemoveFromWishlist(rows, userId, productId)

(***************************************************************************)
(* Users.  A user row is [id, whatsappNumber, isAdmin, isPrimaryAdmin]; a  *)
(* Partial<User> is a record of optional values.                           *)
(***************************************************************************)
\* the rows without those whose field has the value
Without(rows, field, value) == SelectSeq(rows, LAMBDA x : x[field] # value)

\* user ids of one run
MaxUsers == 3

\* the number of the administrator account: ADMIN_WHATSAPP for the
\* database, the sample number of MemStorage
AdminWhatsApp == "admin"

\* WhatsApp numbers of the model
Numbers == {AdminWhatsApp, "n1", "n2"}

\* the admin user of initializeSampleData and of initializeDatabase
InitialUsers ==
    <<[id |-> 1, whatsappNumber |-> AdminWhatsApp, isAdmin |-> TRUE,
       isPrimaryAdmin |-> TRUE]>>

\* storage.getUser: the user as an optional value
getUser(rows, id) == {u \in Range(rows) : u.id = id}

\* storage.getUserByWhatsApp: the first user with the number
getUserByWhatsApp(rows, number) ==
    LET found == {i \in 1..Len(rows) : rows[i].whatsappNumber = number}
    IN  IF found = {} THEN {}
        ELSE {rows[CHOOSE i \in found : \A j \in found : i <= j]}

\* a createUser that numbers the user by the count of the stored users
createUserByCount(rows, id, number) ==
    Append(rows, [id |-> Len(rows) + 1, whatsappNumber |-> number,
                  isAdmin |-> FALSE, isPrimaryAdmin |-> FALSE])

\* storage.createUser: isAdmin and isPrimaryAdmin are false
createUser(rows, id, number) ==
    Append(rows, [id |-> id, whatsappNumber |-> number, isAdmin |-> FALSE,
                  isPrimaryAdmin |-> FALSE])

NoData == [whatsappNumber |-> {}, isAdmin |-> {}, isPrimaryAdmin |-> {}]

\* { ...user, ...data }
MergeUser(user, data) ==
    [f \in DOMAIN user |->
        IF f \in DOMAIN data /\ data[f] # {} THEN CHOOSE x \in data[f] : TRUE
        ELSE user[f]]

\* storage.updateUser: [ok, found, rows].  isPrimaryAdmin is forced to
\* false for a user that is not the primary admin.  The database refuses
\* an update with nothing to set and a number another user holds.
updateUser(store, rows, id, data) ==
    LET found == {i \in 1..Len(rows) : rows[i].id = id}
    IN  IF found = {} THEN [ok |-> TRUE, found |-> FALSE, rows |-> rows]
        ELSE LET at == CHOOSE i \in found : TRUE
                 user == rows[at]
                 checked == IF data.isPrimaryAdmin # {} /\ ~user.isPrimaryAdmin
                            THEN [data EXCEPT !.isPrimaryAdmin = {FALSE}]
                            ELSE data
                 thrown ==
                    /\ store = "db"
                    /\ \/ checked = NoData
                       \/ \E i \in 1..Len(rows) :
                             /\ i # at
                             /\ checked.whatsappNumber = {rows[i].whatsappNumber}
             IN  IF thrown THEN [ok |-> FALSE, found |-> TRUE, rows |-> rows]
                 ELSE [ok |-> TRUE, found |-> TRUE,
                       rows |-> [rows EXCEPT ![at] = MergeUser(user, checked)]]

\* deleteUser without the test of isPrimaryAdmin
deleteUserAny(rows, id) ==
    IF getUser(rows, id) = {}
    THEN [deleted |-> FALSE, rows |-> rows]
    ELSE [deleted |-> TRUE, rows |-> Without(rows, "id", id)]

\* storage.deleteUser: [deleted, rows]
deleteUser(rows, id) ==
    IF getUser(rows, id) = {} \/ \E u \in getUser(rows, id) : u.isPrimaryAdmin
    THEN [deleted |-> FALSE, rows |-> rows]
    ELSE [deleted |-> TRUE, rows |-> Without(rows, "id", id)]

(***************************************************************************)
(* The migrations of the server and the feedback the routes start with.    *)
(***************************************************************************)
\* the filenames of the migrations, sorted
MigrationFiles ==
    <<"001_initial_schema.sql", "002_add_product_images_and_feedback.sql",
      "003_update_dimensions_to_decimal.sql">>

\* a feedback record: its id
Feedback(id) == [id |-> id]

\* mockFeedback as the routes are registered: ids 1 to 5
InitialFeedback == [i \in 1..5 |-> Feedback(i)]

(***************************************************************************)
(* Initial state: the store chosen at process start (storage = isDev ? new *)
(* MemStorage() : new DatabaseStorage()) holding the sample catalogue, for *)
(* the database as rows persisted earlier, and no request in flight.       *)
(***************************************************************************)
NoLocals == [at |-> "idle"]
NoResponse == [kind |-> "none"]

Init ==
    /\ impl \in {"mem", "db"}
    /\ products = SampleProducts
    /\ currentProductId = Len(SampleProducts) + 1
    /\ now = 0
    /\ wishlists = << >>
    /\ currentWishlistId = 1
    /\ pc = [r \in Reqs |-> "idle"]
    /\ loc = [r \in Reqs |-> NoLocals]
    /\ resp = NoResponse
    /\ users = InitialUsers
    /\ currentUserId = Len(InitialUsers) + 1
    /\ migrations = << >>
    /\ applied = [m \in Range(MigrationFiles) |-> 0]
    /\ mockFeedback = InitialFeedback

(***************************************************************************)
(* Scheduling.  A handler suspends at each await.  An await on MemStorage  *)
(* resumes in the same turn of the event loop, before any other request is *)
(* taken up, so on "mem" a handler that has started runs to its end alone; *)
(* an await on the database lets other handlers run.                       *)
(***************************************************************************)
\* slot r may take its next step
CanStep(r) == impl = "mem" => \A o \in Reqs \ {r} : pc[o] = "idle"

\* a scheduler that takes a request up while a handler is suspended
CanStartAnytime == TRUE

\* a handler may start
CanStart == impl = "mem" => \A o \in Reqs : pc[o] = "idle"

\* no handler is suspended
Sequential == \A r \in Reqs : pc[r] = "idle"

(***************************************************************************)
(* The client side: the response sent last is read.                        *)
(***************************************************************************)
Delivered == resp = NoResponse

Deliver ==
    /\ ~Delivered
    /\ resp' = NoResponse
    /\ UNCHANGED <<serverVars, userVars, impl, products, currentProductId, now, wishlists,
                   currentWishlistId, pc, loc>>

(***************************************************************************)
(* Product updates of the store.                                           *)
(***************************************************************************)
\* storage.createProduct: the database refuses a code already stored
\* (products.code is UNIQUE) and the serial it drew is not given back
CreateProduct(input) ==
    /\ CanStart
    /\ currentProductId <= Len(SampleProducts) + MaxCreates
    /\ LET duplicate == \E i \in 1..Len(products) : products[i].code = input.code
           thrown == impl = "db" /\ duplicate
       IN  /\ products' = IF thrown THEN products
                          ELSE Append(products,
                                      NewProduct(currentProductId, input, now))
           /\ resp' = [kind |-> "createProduct", ok |-> ~thrown,
                       id |-> currentProductId]
    /\ currentProductId' = currentProductId + 1
    /\ UNCHANGED <<serverVars, userVars, impl, now, wishlists, currentWishlistId, pc, loc>>

\* storage.deleteProduct: wishlists.productId references products(id)
\* ON DELETE CASCADE in the database; the Map of MemStorage has no such rule
DeleteProduct(id) ==
    /\ CanStart
    /\ products' = Without(products, "id", id)
    /\ wishlists' = IF impl = "db" THEN Without(wishlists, "productId", id)
                    ELSE wishlists
    /\ resp' = [kind |-> "deleteProduct", ok |-> products' # products, id |-> id]
    /\ UNCHANGED <<serverVars, userVars, impl, currentProductId, now, currentWishlistId, pc, loc>>

(***************************************************************************)
(* GET /api/filters/categories, /finishes, /materials.  q is req.query:    *)
(* [category, finish, material], each optional.                            *)
(***************************************************************************)
\* the filters object the route of a facet passes to the store
FacetFilters(facet, q) ==
    CASE facet = "category" ->
            [finish |-> AllToUndefined(q.finish),
             material |-> AllToUndefined(q.material)]
      [] facet = "finish" ->
            [category |-> AllToUndefined(q.category),
             material |-> AllToUndefined(q.material)]
      [] facet = "material" ->
            [category |-> AllToUndefined(q.category),
             finish |-> AllToUndefined(q.finish)]

GetFilters(facet, q) ==
    /\ CanStart
    /\ resp' = [kind |-> "filters", status |-> 200, facet |-> facet, q |-> q,
                body |-> getAvailable(impl, facet, products,
                                      FacetFilters(facet, q))]
    /\ UNCHANGED <<serverVars, userVars, impl, products, currentProductId, now, wishlists,
                   currentWishlistId, pc, loc>>

(***************************************************************************)
(* GET /api/products.  q is req.query: [search, category, finish,          *)
(* material, sortBy, page, limit], each optional; page and limit are the   *)
(* text parseInt reads.                                                    *)
(***************************************************************************)
\* the destructuring defaults page = "1", limit = "50"
DefaultPage == 1
DefaultLimit == 50

OrDefault(opt, n) ==
    IF opt = {} THEN [numeric |-> TRUE, n |-> n] ELSE CHOOSE t \in opt : TRUE

\* the filters object of structured-filter mode, without limit and offset
ListFilters(q) ==
    [category |-> AllToUndefined(q.category),
     finish |-> AllToUndefined(q.finish),
     material |-> AllToUndefined(q.material)]

\* the number of pages with Math.floor in the place of Math.ceil
TotalPagesFloor(total, limitNum) ==
    IF limitNum.nan \/ limitNum.v = 0 THEN {}
    ELSE IF limitNum.v > 0
         THEN {total \div limitNum.v}
         ELSE {0 - ((total + (0 - limitNum.v) - 1) \div (0 - limitNum.v))}

\* JSON.stringify of Math.ceil(total / limitNum): NaN and Infinity are
\* written as null, here {}
TotalPages(total, limitNum) ==
    IF limitNum.nan \/ limitNum.v = 0 THEN {}
    ELSE IF limitNum.v > 0
         THEN {(total + limitNum.v - 1) \div limitNum.v}
         ELSE {0 - (total \div (0 - limitNum.v))}

\* a handler that takes structured-filter mode whatever the search text
ListModeAlwaysFilter(q) == "filter"

\* if (search) ... else ...: search mode for a search text that is truthy
ListMode(q) == IF Truthy(q.search) THEN "search" ELSE "filter"

\* what the handler computes for a request on one table: the page query's
\* outcome and the count
ListAnswer(store, rows, q) ==
    LET pageNum == parseInt(OrDefault(q.page, DefaultPage))
        limitNum == parseInt(OrDefault(q.limit, DefaultLimit))
        offset == Times(Minus(pageNum, Int_(1)), limitNum)
        page == IF ListMode(q) = "search"
                THEN searchProducts(store, rows, Val(q.search),
                                    {limitNum}, {offset})
                ELSE filterProducts(store, rows,
                         [category |-> ListFilters(q).category,
                          finish |-> ListFilters(q).finish,
                          material |-> ListFilters(q).material,
                          sortBy |-> q.sortBy,
                          limit |-> {limitNum},
                          offset |-> {offset}])
        total == IF ListMode(q) = "search"
                 THEN getSearchCount(store, rows, Val(q.search))
                 ELSE getFilterCount(store, rows, ListFilters(q))
    IN  [ok |-> page.ok, products |-> page.rows, total |-> total]

\* first await: the page query
ListPage(r, q) ==
    /\ pc[r] = "idle"
    /\ CanStep(r)
    /\ LET pageNum == parseInt(OrDefault(q.page, DefaultPage))
           limitNum == parseInt(OrDefault(q.limit, DefaultLimit))
           offset == Times(Minus(pageNum, Int_(1)), limitNum)
           page == IF ListMode(q) = "search"
                   THEN searchProducts(impl, products, Val(q.search),
                                       {limitNum}, {offset})
                   ELSE filterProducts(impl, products,
                            [category |-> ListFilters(q).category,
                             finish |-> ListFilters(q).finish,
                             material |-> ListFilters(q).material,
                             sortBy |-> q.sortBy,
                             limit |-> {limitNum},
                             offset |-> {offset}])
       IN  IF page.ok
           THEN /\ pc' = [pc EXCEPT ![r] = "count"]
                /\ loc' = [loc EXCEPT ![r] =
                             [at |-> "count", q |-> q, products |-> page.rows,
                              pageNum |-> pageNum, limitNum |-> limitNum,
                              readFrom |-> products]]
                /\ resp' = resp
           ELSE /\ resp' = [kind |-> "list", status |-> 500, q |-> q]
                /\ UNCHANGED <<pc, loc>>
    /\ UNCHANGED <<serverVars, userVars, impl, products, currentProductId, now, wishlists,
                   currentWishlistId>>

\* second await: the count query, then res.json; readFrom is the table the
\* page was read from, kept to state claims
ListCount(r) ==
    /\ pc[r] = "count"
    /\ CanStep(r)
    /\ LET q == loc[r].q
           total == IF ListMode(q) = "search"
                    THEN getSearchCount(impl, products, Val(q.search))
                    ELSE getFilterCount(impl, products, ListFilters(q))
       IN  resp' = [kind |-> "list", status |-> 200, q |-> q,
                    products |-> loc[r].products,
                    page |-> loc[r].pageNum, limit |-> loc[r].limitNum,
                    total |-> total,
                    totalPages |-> TotalPages(total, loc[r].limitNum),
                    readFrom |-> loc[r].readFrom]
    /\ pc' = [pc EXCEPT ![r] = "idle"]
    /\ loc' = [loc EXCEPT ![r] = NoLocals]
    /\ UNCHANGED <<serverVars, userVars, impl, products, currentProductId, now, wishlists,
                   currentWishlistId>>

(***************************************************************************)
(* POST /api/wishlist and DELETE /api/wishlist/:productId.  userId is      *)
(* req.session.userId, productId the parsed product id.                    *)
(***************************************************************************)
\* handlers suspended between the membership check and the insert
Inserting == {r \in Reqs : pc[r] = "insert"}

\* first await: storage.isInWishlist.  A new row is drawn while the model's
\* bound on addToWishlist calls leaves room for it.
PostWishlistCheck(r, userId, productId) ==
    /\ pc[r] = "idle"
    /\ CanStep(r)
    /\ IF userId = 0
       THEN /\ resp' = [kind |-> "postWishlist", status |-> 401,
                        userId |-> userId, productId |-> productId]
            /\ UNCHANGED <<pc, loc>>
       ELSE LET found == isInWishlist(impl, wishlists, userId, productId)
            IN  IF found
                THEN /\ resp' = [kind |-> "postWishlist", status |-> 400,
                                 userId |-> userId, productId |-> productId,
                                 isInWishlist |-> found,
                                 checked |-> wishlists, before |-> wishlists]
                     /\ UNCHANGED <<pc, loc>>
                ELSE /\ currentWishlistId + Cardinality(Inserting) <= MaxAdds
                     /\ pc' = [pc EXCEPT ![r] = "insert"]
                     /\ loc' = [loc EXCEPT ![r] =
                                  [at |-> "insert", userId |-> userId,
                                   productId |-> productId,
                                   isInWishlist |-> found,
                                   checked |-> wishlists]]
                     /\ resp' = resp
    /\ UNCHANGED <<serverVars, userVars, impl, products, currentProductId, now, wishlists,
                   currentWishlistId>>

\* second await: storage.addToWishlist, then res.json(wishlist).  The
\* database refuses a productId that references no product and a userId
\* that references no user, and the serial it drew is not given back;
\* checked and before are the table at the check and at the insert, kept
\* to state claims
PostWishlistInsert(r) ==
    /\ pc[r] = "insert"
    /\ CanStep(r)
    /\ LET wishlist == [id |-> currentWishlistId, userId |-> loc[r].userId,
                        productId |-> loc[r].productId]
           thrown == /\ impl = "db"
                     /\ \/ \A i \in 1..Len(products) :
                              products[i].id # loc[r].productId
                        \/ \A i \in 1..Len(users) :
                              users[i].id # loc[r].userId
       IN  /\ wishlists' = IF thrown THEN wishlists
                           ELSE Append(wishlists, wishlist)
           /\ resp' = [kind |-> "postWishlist",
                       status |-> IF thrown THEN 400 ELSE 200,
                       userId |-> loc[r].userId,
                       productId |-> loc[r].productId,
                       isInWishlist |-> loc[r].isInWishlist,
                       body |-> wishlist,
                       checked |-> loc[r].checked, before |-> wishlists]
    /\ currentWishlistId' = currentWishlistId + 1
    /\ pc' = [pc EXCEPT ![r] = "idle"]
    /\ loc' = [loc EXCEPT ![r] = NoLocals]
    /\ UNCHANGED <<serverVars, userVars, impl, products, currentProductId, now>>

\* a response that states success: 200 {success: false}
DeleteWishlistResponseSuccessFlag(success) ==
    [status |-> 200, body |-> [success |-> success]]

\* what the DELETE route answers for the store's result
DeleteWishlistResponse(success) ==
    IF ~success
    THEN [status |-> 404, body |-> [message |-> "Item not found in wishlist"]]
    ELSE [status |-> 200, body |-> [success |-> TRUE]]

\* the one await: storage.removeFromWishlist; before is the table it ran on
DeleteWishlist(userId, productId) ==
    /\ CanStart
    /\ IF userId = 0
       THEN /\ resp' = [kind |-> "deleteWishlist", status |-> 401,
                        userId |-> userId, productId |-> productId]
            /\ UNCHANGED wishlists
       ELSE LET removed == removeFromWishlist(impl, wishlists, userId, productId)
                answer == DeleteWishlistResponse(removed.deleted)
            IN  /\ wishlists' = removed.rows
                /\ resp' = [kind |-> "deleteWishlist",
                            status |-> answer.status, body |-> answer.body,
                            userId |-> userId, productId |-> productId,
                            success |-> removed.deleted, before |-> wishlists]
    /\ UNCHANGED <<serverVars, userVars, impl, products, currentProductId, now, currentWishlistId,
                   pc, loc>>

(***************************************************************************)
(* Facet queries on a changing catalogue.                                  *)
(***************************************************************************)
\* values of a query parameter of the facet routes
FacetParams == {{}, {Empty}, {All}, {Str_a}, {Str_B}}

\* req.query of a facet request: the parameter of the facet asked for is not
\* read by its route
FacetQueries(facet) ==
    {q \in [category : FacetParams, finish : FacetParams,
            material : FacetParams] : q[facet] \in {{}, {Str_B}}}

\* a single client: it reads each response before it sends the next request
NextFacets ==
    \/ Deliver
    \/ \E input \in ProductInputs : Delivered /\ CreateProduct(input)
    \/ \E id \in 1..(Len(SampleProducts) + MaxCreates) :
          Delivered /\ DeleteProduct(id)
    \/ \E facet \in Facets :
          \E q \in FacetQueries(facet) : Delivered /\ GetFilters(facet, q)

SpecFacets == Init /\ [][NextFacets]_vars

(***************************************************************************)
(* Claims about the facet queries.                                         *)
(***************************************************************************)
\* a query parameter that constrains: present, not "" and not "all"
Supplied(opt) == opt \notin {{}, {Empty}, {All}}

\* the products that match every supplied value of the other facets
MatchingOthers(rows, facet, q) ==
    {i \in 1..Len(rows) :
        \A g \in Facets \ {facet} : Supplied(q[g]) => rows[i][g] = Val(q[g])}

\* their non-empty values of the facet
ExpectedFacetValues(rows, facet, q) ==
    {rows[i][facet] : i \in MatchingOthers(rows, facet, q)} \ {Empty}

\* C1: the response of a facet route lists exactly the non-empty values of
\* the facet over the products matching every supplied other-facet value,
\* each once and in ascending order
C1_FacetValues ==
    resp.kind = "filters" =>
        /\ Range(resp.body) = ExpectedFacetValues(products, resp.facet, resp.q)
        /\ \A i, j \in 1..Len(resp.body) :
              i < j => CodeUnitLess(resp.body[i], resp.body[j])

\* C1 witness: a facet response with two values, under a supplied value that
\* excludes a product
C1_Witness ==
    /\ resp.kind = "filters"
    /\ Len(resp.body) >= 2
    /\ \E g \in Facets \ {resp.facet} : Supplied(resp.q[g])
    /\ Cardinality(MatchingOthers(products, resp.facet, resp.q)) < Len(products)

\* the filters of the listing that adds facet = v to the filters of a facet
\* request
WithFacet(facet, q, v) ==
    [g \in Facets |-> IF g = facet THEN {v} ELSE AllToUndefined(q[g])]

\* C2: a non-empty value is in the response of a facet route if and only if
\* the count of the listing with that value and the same other-facet values
\* is positive, on the same store state
C2_FacetsAgreeWithCounts ==
    resp.kind = "filters" =>
        \A v \in {All, Str_a, Str_B, Str_b} :
            v \in Range(resp.body)
              <=> getFilterCount(impl, products,
                                 WithFacet(resp.facet, resp.q, v)) > 0

\* C2 witness: under a supplied other-facet value, one value is offered and
\* another value, which some product of the catalogue has, is not
C2_Witness ==
    /\ resp.kind = "filters"
    /\ \E g \in Facets \ {resp.facet} : Supplied(resp.q[g])
    /\ resp.body # << >>
    /\ \E i \in 1..Len(products) :
          /\ products[i][resp.facet] # Empty
          /\ products[i][resp.facet] \notin Range(resp.body)

(***************************************************************************)
(* Listings on a changing catalogue, one request served at a time.         *)
(***************************************************************************)
NoQuery ==
    [search |-> {}, category |-> {}, finish |-> {}, material |-> {},
     sortBy |-> {}, page |-> {}, limit |-> {}]

\* page and limit as sent: absent, text that is no number, or digits
Digits(n) == {[numeric |-> TRUE, n |-> n]}
NotANumber == {[numeric |-> FALSE, n |-> 0]}
PageTexts == {{}, NotANumber, Digits(-1), Digits(0), Digits(1), Digits(2)}

FilterQueries ==
    {[NoQuery EXCEPT !.category = c, !.finish = f, !.material = m] :
        c \in {{}, {All}, {Str_a}, {Str_B}},
        f \in {{}, {All}, {Str_a}},
        m \in {{}, {Empty}, {Str_a}}}

SortQueries ==
    {[NoQuery EXCEPT !.sortBy = k, !.limit = l] :
        k \in {{"code"}, {"category"}, {"newest"}, {"name"}, {"price"}},
        l \in {{}, Digits(1)}}

PageQueries ==
    {[NoQuery EXCEPT !.page = p, !.limit = l] :
        p \in PageTexts, l \in PageTexts}

SearchQueries ==
    {[NoQuery EXCEPT !.search = s, !.category = c, !.limit = l] :
        s \in {{Empty}, {Str_a}, {Str_b}, {All}},
        c \in {{}, {Str_B}},
        l \in {{}, NotANumber, Digits(-1), Digits(1)}}

ListingQueries ==
    FilterQueries \cup SortQueries \cup PageQueries \cup SearchQueries

NextListing ==
    \/ Deliver
    \/ \E input \in ProductInputs :
          Delivered /\ Sequential /\ CreateProduct(input)
    \/ \E id \in 1..(Len(SampleProducts) + MaxCreates) :
          Delivered /\ Sequential /\ DeleteProduct(id)
    \/ \E q \in ListingQueries : Delivered /\ ListPage(1, q)
    \/ ListCount(1)

SpecListing == Init /\ [][NextListing]_vars

(***************************************************************************)
(* Claims about the listing.                                               *)
(***************************************************************************)
\* the page operation of a request's predicate with no limit and offset 0
Unpaginated(rows, q) ==
    IF Truthy(q.search)
    THEN searchProducts(impl, rows, Val(q.search), {}, {Int_(0)})
    ELSE filterProducts(impl, rows,
             [category |-> ListFilters(q).category,
              finish |-> ListFilters(q).finish,
              material |-> ListFilters(q).material,
              sortBy |-> q.sortBy, limit |-> {}, offset |-> {Int_(0)}])

\* C8: the total of a listing response, the count operation's result, is
\* the number of rows the page operation returns for the same predicate
\* with no limit and offset 0 on the same store state
C8_CountMatchesPage ==
    resp.kind = "list" /\ resp.status = 200 =>
        resp.total = Len(Unpaginated(products, resp.q).rows)

\* C8 witness: a listing whose predicate selects some but not all products
C8_Witness ==
    /\ resp.kind = "list"
    /\ resp.status = 200
    /\ resp.total >= 1
    /\ resp.total < Len(products)

\* C9 as claimed: the products of a listing response are at most the limit
\* its pagination reports, whatever page and limit were sent
C9_ItemsWithinLimit ==
    resp.kind = "list" /\ resp.status = 200 /\ ~resp.limit.nan =>
        Len(resp.products) <= resp.limit.v

\* page or limit is sent as text that is no number
NonNumeric(opt) == opt = NotANumber

\* page or limit is absent, is no number, or is a number from 1
Usable(opt) == \A t \in opt : t.numeric => t.n >= 1

\* the number a parameter stands for when absent or non-numeric text falls
\* back to the default
Effective(opt, default) ==
    IF opt = {} \/ NonNumeric(opt) THEN default ELSE (CHOOSE t \in opt : TRUE).n

\* C10 as claimed: a listing whose page or limit is absent or non-numeric
\* (the other being usable) succeeds, reports page 1 and limit 50 in their
\* place and returns the products of that page
C10_DefaultsApplied ==
    resp.kind = "list" =>
        LET q == resp.q
            noPage == q.page = {} \/ NonNumeric(q.page)
            noLimit == q.limit = {} \/ NonNumeric(q.limit)
            page == Effective(q.page, DefaultPage)
            limit == Effective(q.limit, DefaultLimit)
            all == Unpaginated(products, q).rows
        IN  (noPage \/ noLimit) /\ Usable(q.page) /\ Usable(q.limit) =>
                /\ resp.status = 200
                /\ resp.page = Int_(page)
                /\ resp.limit = Int_(limit)
                /\ resp.products
                     = SubSeq(all, (page - 1) * limit + 1,
                              MinOf(page * limit, Len(all)))

\* C11: a listing with page >= 1 and limit >= 1 succeeds, returns the rows
\* at positions (page-1)*limit .. page*limit-1 of the result without
\* pagination, reports totalPages = ceil(total / limit), and past the last
\* page returns no product with the total unchanged
C11_PageWindow ==
    resp.kind = "list" =>
        LET q == resp.q
            page == Effective(q.page, DefaultPage)
            limit == Effective(q.limit, DefaultLimit)
            all == Unpaginated(products, q).rows
        IN  /\ ~NonNumeric(q.page) /\ ~NonNumeric(q.limit)
            /\ page >= 1 /\ limit >= 1
            =>  /\ resp.status = 200
                /\ resp.total = Len(all)
                /\ \A k \in 1..Len(resp.products) :
                      /\ (page - 1) * limit + k <= Len(all)
                      /\ resp.products[k] = all[(page - 1) * limit + k]
                /\ Len(resp.products)
                     = MaxOf(0, MinOf(limit, Len(all) - (page - 1) * limit))
                /\ resp.totalPages
                     = {CHOOSE n \in 0..Len(all) :
                          n * limit >= Len(all) /\ (n - 1) * limit < Len(all)}
                /\ (page - 1) * limit >= Len(all) => resp.products = << >>

\* C11 witness: the last page of a listing is a partial one (three products,
\* limit 2, page 2: one product, two pages)
C11_Witness ==
    /\ resp.kind = "list"
    /\ resp.status = 200
    /\ resp.q.page = Digits(2) /\ resp.q.limit = Digits(2)
    /\ resp.total = 3
    /\ Len(resp.products) = 1
    /\ resp.totalPages = {2}

\* the requests that differ from q in category, finish, material or sortBy
\* only
SameSearch(q) ==
    {[q EXCEPT !.category = c, !.finish = f, !.material = m, !.sortBy = k] :
        c \in {{}, {Str_a}, {Str_B}, {All}},
        f \in {{}, {Str_a}},
        m \in {{}, {Str_a}},
        k \in {{}, {"code"}, {"newest"}}}

\* C12: the products and the total of a listing with a non-empty search text
\* are those of every request with the same search, page and limit and any
\* other category, finish, material and sortBy
C12_SearchIgnoresFilters ==
    resp.kind = "list" /\ Truthy(resp.q.search) =>
        \A q2 \in SameSearch(resp.q) :
            LET other == ListAnswer(impl, products, q2)
            IN  IF resp.status = 200
                THEN /\ other.ok
                     /\ other.products = resp.products
                     /\ other.total = resp.total
                ELSE ~other.ok

\* C12 witness: a search sent with a category returns a product of another
\* category
C12_Witness ==
    /\ resp.kind = "list"
    /\ resp.status = 200
    /\ Truthy(resp.q.search)
    /\ Supplied(resp.q.category)
    /\ \E k \in 1..Len(resp.products) :
          resp.products[k].category # Val(resp.q.category)

(***************************************************************************)
(* Structured-filter listings and facet queries of one client on a         *)
(* changing catalogue.                                                     *)
(***************************************************************************)
NextSentinel ==
    \/ Deliver
    \/ \E input \in ProductInputs :
          Delivered /\ Sequential /\ CreateProduct(input)
    \/ \E id \in 1..(Len(SampleProducts) + MaxCreates) :
          Delivered /\ Sequential /\ DeleteProduct(id)
    \/ \E facet \in Facets :
          \E q \in FacetQueries(facet) :
             Delivered /\ Sequential /\ GetFilters(facet, q)
    \/ \E q \in FilterQueries \cup SortQueries : Delivered /\ ListPage(1, q)
    \/ ListCount(1)

SpecSentinel == Init /\ [][NextSentinel]_vars

\* the request without its category, finish and material parameters of
\* value "all"
Omitted(q) ==
    [f \in DOMAIN q |-> IF f \in Facets /\ q[f] = {All} THEN {} ELSE q[f]]

\* C13: a facet response and a structured-filter listing response are those
\* of the request that omits every category, finish or material parameter
\* sent as "all"
C13_AllIsOmitted ==
    /\ resp.kind = "filters" =>
          resp.body = getAvailable(impl, resp.facet, products,
                                   FacetFilters(resp.facet, Omitted(resp.q)))
    /\ resp.kind = "list" /\ ~Truthy(resp.q.search) =>
          LET other == ListAnswer(impl, products, Omitted(resp.q))
          IN  /\ resp.status = 200
              /\ other.ok
              /\ other.products = resp.products
              /\ other.total = resp.total

\* C13 witness: a listing sent with finish = "all" returns a product whose
\* finish is another value
C13_Witness ==
    /\ resp.kind = "list"
    /\ resp.status = 200
    /\ resp.q.finish = {All}
    /\ \E k \in 1..Len(resp.products) : resp.products[k].finish # All
    /\ \E i \in 1..Len(products) : products[i].finish = All

(***************************************************************************)
(* Wishlist requests of two sessions over the sample catalogue; two POST   *)
(* handlers may be in flight together.                                     *)
(***************************************************************************)
NextWishlist ==
    \/ Deliver
    \/ \E r \in Reqs : \E userId \in SessionUsers :
          \E productId \in 1..Len(SampleProducts) :
             Delivered /\ PostWishlistCheck(r, userId, productId)
    \/ \E r \in Reqs : PostWishlistInsert(r)
    \/ \E userId \in SessionUsers : \E productId \in 1..Len(SampleProducts) :
          Delivered /\ DeleteWishlist(userId, productId)

SpecWishlist == Init /\ [][NextWishlist]_vars

(***************************************************************************)
(* Claims about the wishlist.                                              *)
(***************************************************************************)
\* the rows of a wishlist table that belong to a pair
EntriesOf(rows, userId, productId) ==
    {i \in 1..Len(rows) :
        rows[i].userId = userId /\ rows[i].productId = productId}

\* C3 as claimed: the wishlist holds at most one entry per (userId,
\* productId) pair in every reachable state, interleaved POST requests
\* included
C3_OneEntryPerPair ==
    \A i, j \in 1..Len(wishlists) :
        wishlists[i].userId = wishlists[j].userId
          /\ wishlists[i].productId = wishlists[j].productId => i = j

\* C4 as claimed: an add for a pair already present answers Conflict and
\* leaves the wishlist as it was; an add for a pair not present appends one
\* entry of that pair and returns it
C4_AddConflictOrCreate ==
    resp.kind = "postWishlist" /\ resp.userId # 0 =>
        IF EntriesOf(resp.checked, resp.userId, resp.productId) # {}
        THEN resp.status = 400 /\ wishlists = resp.before
        ELSE /\ resp.status = 200
             /\ resp.body.userId = resp.userId
             /\ resp.body.productId = resp.productId
             /\ wishlists = Append(resp.before, resp.body)

\* C5 as claimed: removeFromWishlist returns true exactly when the pair had
\* an entry, deletes an entry of that pair and nothing else, and on a pair
\* with no entry returns false and leaves the table as it was
C5_RemoveReportsDeletion ==
    resp.kind = "deleteWishlist" /\ resp.userId # 0 =>
        LET had == EntriesOf(resp.before, resp.userId, resp.productId)
        IN  /\ resp.success <=> had # {}
            /\ had = {} => wishlists = resp.before
            /\ had # {} =>
                  \E i \in had :
                     wishlists = SubSeq(resp.before, 1, i - 1)
                                   \o SubSeq(resp.before, i + 1,
                                             Len(resp.before))

C7_IsInWishlistExact ==
    resp.kind = "postWishlist" /\ resp.userId # 0 =>
        (resp.isInWishlist
           <=> EntriesOf(resp.checked, resp.userId, resp.productId) # {})

(***************************************************************************)
(* The product store under createProduct, bulkCreateProducts,              *)
(* updateProduct and deleteProduct, with filterProducts called on it.      *)
(* For the database, products is the table in the order a scan reads it.   *)
(***************************************************************************)
\* ticks of the clock
MaxClock == 1

\* time passes between two calls
Tick ==
    /\ now < MaxClock
    /\ now' = now + 1
    /\ UNCHANGED <<serverVars, userVars, impl, products, currentProductId, wishlists,
                   currentWishlistId, pc, loc, resp>>

\* the rows that hold a code
WithCode(rows, code) == {i \in 1..Len(rows) : rows[i].code = code}

\* Partial<InsertProduct> bodies of updateProduct: each field optional
UpdateInputs ==
    {[name |-> {Str_B}, code |-> {}, category |-> {}],
     [name |-> {}, code |-> {Str_a}, category |-> {}]}

\* {...existing, ...updateData}
Merge(existing, updateData) ==
    [existing EXCEPT
        !.name = IF updateData.name = {} THEN @ ELSE Val(updateData.name),
        !.code = IF updateData.code = {} THEN @ ELSE Val(updateData.code),
        !.category = IF updateData.category = {} THEN @
                     ELSE Val(updateData.category)]

\* rows with the row at index from taken out and row put in at index to
MoveTo(rows, from, to, row) ==
    LET rest == SubSeq(rows, 1, from - 1) \o SubSeq(rows, from + 1, Len(rows))
    IN  SubSeq(rest, 1, to - 1) \o <<row>> \o SubSeq(rest, to, Len(rest))

\* storage.updateProduct.  MemStorage sets the key again, which keeps its
\* place in the Map.  The database refuses a code another row holds; the
\* row version an UPDATE writes goes where the table has room, so a scan
\* reads it where the old version stood or after the other rows.
UpdateProduct(id, updateData) ==
    /\ CanStart
    /\ LET found == {i \in 1..Len(products) : products[i].id = id}
       IN  IF found = {}
           THEN /\ products' = products
                /\ resp' = [kind |-> "updateProduct", ok |-> TRUE,
                            found |-> FALSE, id |-> id]
           ELSE LET at == CHOOSE i \in found : TRUE
                    updated == Merge(products[at], updateData)
                    thrown == /\ impl = "db"
                              /\ updateData.code # {}
                              /\ WithCode(products, updated.code) \ {at} # {}
                IN  /\ \E to \in IF impl = "mem" \/ thrown THEN {at}
                                 ELSE {at, Len(products)} :
                          products' = IF thrown THEN products
                                      ELSE MoveTo(products, at, to, updated)
                    /\ resp' = [kind |-> "updateProduct", ok |-> ~thrown,
                                found |-> TRUE, id |-> id]
    /\ UNCHANGED <<serverVars, userVars, impl, currentProductId, now, wishlists, currentWishlistId,
                   pc, loc>>

\* InsertProduct[] bodies of bulkCreateProducts
BulkInputs == {<<Input5, Input5>>, <<Input4>>}

\* the products of a batch, with ids from first
NewProducts(first, inputs, date) ==
    [k \in 1..Len(inputs) |-> NewProduct(first + k - 1, inputs[k], date)]

\* storage.bulkCreateProducts.  MemStorage sets every product of the batch.
\* The database inserts the batch in one statement: at the first row whose
\* code is held by a stored row or by an earlier row of the batch the
\* statement fails, no row is kept, and the serials drawn up to that row
\* are not given back.
BulkCreateProducts(inputs) ==
    /\ CanStart
    /\ currentProductId + Len(inputs) - 1 <= Len(SampleProducts) + MaxCreates
    /\ LET clash == {k \in 1..Len(inputs) :
                       \/ WithCode(products, inputs[k].code) # {}
                       \/ \E j \in 1..(k - 1) : inputs[j].code = inputs[k].code}
           thrown == impl = "db" /\ clash # {}
           drawn == IF thrown THEN CHOOSE k \in clash : \A j \in clash : k <= j
                    ELSE Len(inputs)
       IN  /\ products' = IF thrown THEN products
                          ELSE products
                                 \o NewProducts(currentProductId, inputs, now)
           /\ currentProductId' = currentProductId + drawn
           /\ resp' = [kind |-> "bulkCreateProducts", ok |-> ~thrown]
    /\ UNCHANGED <<serverVars, userVars, impl, now, wishlists, currentWishlistId, pc, loc>>

\* values of sortBy: absent, the four keys, and a value that is no key
SortKeys == {{}, {"code"}, {"category"}, {"newest"}, {"name"}, {"price"}}

\* filters objects of filterProducts with no limit and offset 0: every
\* sortBy with no filter, and one with a category
CatalogueFilters ==
    {[category |-> {}, finish |-> {}, material |-> {}, sortBy |-> k,
      limit |-> {}, offset |-> {Int_(0)}] : k \in SortKeys}
    \cup {[category |-> {Str_a}, finish |-> {}, material |-> {},
           sortBy |-> {"code"}, limit |-> {}, offset |-> {Int_(0)}]}

\* storage.filterProducts(filters)
FilterProducts(filters) ==
    /\ CanStart
    /\ LET result == filterProducts(impl, products, filters)
       IN  resp' = [kind |-> "filterProducts", filters |-> filters,
                    ok |-> result.ok, rows |-> result.rows]
    /\ UNCHANGED <<serverVars, userVars, impl, products, currentProductId, now, wishlists,
                   currentWishlistId, pc, loc>>

NextCatalogue ==
    \/ Deliver
    \/ Delivered /\ Tick
    \/ \E input \in {Input3, Input4} : Delivered /\ CreateProduct(input)
    \/ \E inputs \in BulkInputs : Delivered /\ BulkCreateProducts(inputs)
    \/ \E id \in 1..Len(SampleProducts) :
          \E updateData \in UpdateInputs :
             Delivered /\ UpdateProduct(id, updateData)
    \/ \E id \in 1..(Len(SampleProducts) + MaxCreates) :
          Delivered /\ DeleteProduct(id)
    \/ \E filters \in CatalogueFilters : Delivered /\ FilterProducts(filters)

SpecCatalogue == Init /\ [][NextCatalogue]_vars

(***************************************************************************)
(* Claims about the product store.                                         *)
(***************************************************************************)
\* C14: filterProducts with no filter, no limit and offset 0 returns every
\* stored product exactly once, for every sortBy
C14_EveryProductOnce ==
    resp.kind = "filterProducts" /\ resp.filters.category = {} =>
        /\ resp.ok
        /\ Len(resp.rows) = Len(products)
        /\ \A i \in 1..Len(products) :
              Cardinality({k \in 1..Len(resp.rows) :
                              resp.rows[k] = products[i]}) = 1

\* C14 witness: three or more products, returned in another order than the
\* store holds them
C14_Witness ==
    /\ resp.kind = "filterProducts"
    /\ resp.filters.category = {}
    /\ Len(products) >= 3
    /\ resp.rows # products

\* the key a sortBy value asks for
SortKeyOf(sortBy) ==
    CASE sortBy = {"code"} -> "code"
      [] sortBy = {"category"} -> "category"
      [] sortBy = {"newest"} -> "createdAt"
      [] OTHER -> "name"

\* C15: filterProducts succeeds for every sortBy and no row comes before a
\* row that precedes it in the requested order: alphabetical by code, by
\* category, by name (absent or unrecognised sortBy), or createdAt
\* descending for newest
C15_OrderedByKey ==
    resp.kind = "filterProducts" =>
        /\ resp.ok
        /\ \A i, j \in 1..Len(resp.rows) :
              i < j =>
                LET key == SortKeyOf(resp.filters.sortBy)
                    a == resp.rows[i]
                    b == resp.rows[j]
                IN  IF key = "createdAt" THEN a.createdAt >= b.createdAt
                    ELSE ~LocaleLess(b[key], a[key])

\* C15 witness: a sortBy that is no key returns three products by name, in
\* another order than the store holds them
C15_Witness ==
    /\ resp.kind = "filterProducts"
    /\ resp.filters.sortBy = {"price"}
    /\ Len(resp.rows) >= 3
    /\ resp.rows # products
    /\ \E i \in 1..(Len(resp.rows) - 1) :
          LocaleLess(resp.rows[i].name, resp.rows[i + 1].name)

\* C16 as claimed: two rows of a filterProducts result with equal values of
\* the sort key are in ascending id order
C16_TiesById ==
    resp.kind = "filterProducts" /\ resp.ok =>
        \A i, j \in 1..Len(resp.rows) :
            LET key == SortKeyOf(resp.filters.sortBy)
            IN  i < j /\ resp.rows[i][key] = resp.rows[j][key]
                  => resp.rows[i].id < resp.rows[j].id

\* C17 as claimed: no two stored products have the same code
C17_UniqueCodes ==
    \A i, j \in 1..Len(products) :
        products[i].code = products[j].code => i = j

(***************************************************************************)
(* User management: POST /api/auth/register, POST /api/users,              *)
(* PUT /api/users/:id, DELETE /api/users/:id and GET /api/init-db.         *)
(* adminId is req.session.userId (0: no session); a session outlives the   *)
(* user it names.  One request is served at a time.                        *)
(***************************************************************************)
\* what these requests leave alone
catalogueVars == <<serverVars, impl, products, currentProductId, now,
                   currentWishlistId, pc, loc>>

\* POST /api/auth/register: the user with the number, created if there is
\* none, becomes the session user unless it is an admin
Register(number) ==
    /\ CanStart
    /\ LET existing == getUserByWhatsApp(users, number)
       IN  IF existing = {}
           THEN /\ currentUserId <= MaxUsers
                /\ users' = createUser(users, currentUserId, number)
                /\ currentUserId' = currentUserId + 1
                /\ resp' = [kind |-> "register", status |-> 200]
           ELSE /\ resp' = [kind |-> "register",
                            status |-> IF \E u \in existing : u.isAdmin
                                       THEN 403 ELSE 200]
                /\ UNCHANGED userVars
    /\ UNCHANGED <<catalogueVars, wishlists>>

\* updates of a handler that grants what the body asks for
PostUsersUpdatesGrant(admin) ==
    [NoData EXCEPT !.isAdmin = {TRUE}, !.isPrimaryAdmin = {FALSE}]

\* the updates POST /api/users builds for a body whose isAdmin is truthy
PostUsersUpdates(admin) ==
    IF admin.isPrimaryAdmin
    THEN [NoData EXCEPT !.isAdmin = {TRUE}, !.isPrimaryAdmin = {FALSE}]
    ELSE [NoData EXCEPT !.isAdmin = {FALSE}]

\* bodies of POST /api/users
PostBodies == [whatsappNumber : Numbers, isAdmin : BOOLEAN]

\* POST /api/users
PostUsers(adminId, body) ==
    /\ CanStart
    /\ LET admin == getUser(users, adminId)
           existingUser == getUserByWhatsApp(users, body.whatsappNumber)
           answer(status) == [kind |-> "postUsers", status |-> status,
                              adminId |-> adminId, id |-> currentUserId,
                              isAdmin |-> body.isAdmin]
       IN  IF adminId = 0 \/ (~\E a \in admin : a.isAdmin) \/ existingUser # {}
           THEN /\ resp' = answer(IF adminId = 0 THEN 401
                                  ELSE IF (~\E a \in admin : a.isAdmin) THEN 403
                                  ELSE 400)
                /\ UNCHANGED userVars
           ELSE /\ currentUserId <= MaxUsers
                /\ LET created == createUser(users, currentUserId,
                                             body.whatsappNumber)
                       updates == PostUsersUpdates(CHOOSE a \in admin : TRUE)
                       result == IF body.isAdmin
                                 THEN updateUser(impl, created, currentUserId,
                                                 updates)
                                 ELSE [ok |-> TRUE, found |-> TRUE,
                                       rows |-> created]
                   IN  /\ users' = result.rows
                       /\ resp' = answer(IF result.ok THEN 200 ELSE 400)
                /\ currentUserId' = currentUserId + 1
    /\ UNCHANGED <<catalogueVars, wishlists>>

\* bodies of PUT /api/users/:id
PutBodies ==
    [whatsappNumber : {{}}, isAdmin : {{}, {TRUE}, {FALSE}},
     isPrimaryAdmin : {{}, {TRUE}, {FALSE}}]
    \cup {[NoData EXCEPT !.whatsappNumber = {"n2"}]}

\* the updates PUT /api/users/:id builds: the privilege fields are taken
\* from the body for a primary admin only
PutUsersUpdates(admin, body) ==
    [whatsappNumber |-> body.whatsappNumber,
     isAdmin |-> IF admin.isPrimaryAdmin THEN body.isAdmin ELSE {},
     isPrimaryAdmin |-> IF admin.isPrimaryAdmin THEN body.isPrimaryAdmin
                        ELSE {}]

\* PUT /api/users/:id
PutUsers(adminId, id, body) ==
    /\ CanStart
    /\ LET admin == getUser(users, adminId)
           user == getUser(users, id)
           answer(status) == [kind |-> "putUsers", status |-> status,
                              adminId |-> adminId, id |-> id]
       IN  IF adminId = 0 THEN resp' = answer(401) /\ UNCHANGED users
           ELSE IF ~\E a \in admin : a.isAdmin
           THEN resp' = answer(403) /\ UNCHANGED users
           ELSE IF user = {} THEN resp' = answer(404) /\ UNCHANGED users
           ELSE IF /\ \E u \in user : u.isPrimaryAdmin
                   /\ \E a \in admin : ~a.isPrimaryAdmin
           THEN resp' = answer(403) /\ UNCHANGED users
           ELSE LET updates == PutUsersUpdates(CHOOSE a \in admin : TRUE, body)
                    result == updateUser(impl, users, id, updates)
                IN  /\ users' = result.rows
                    /\ resp' = answer(IF result.ok THEN 200 ELSE 400)
    /\ UNCHANGED <<catalogueVars, wishlists, currentUserId>>

\* DELETE /api/users/:id.  wishlists.userId references users(id) ON DELETE
\* CASCADE in the database.
DeleteUsers(adminId, id) ==
    /\ CanStart
    /\ LET admin == getUser(users, adminId)
           user == getUser(users, id)
           answer(status) == [kind |-> "deleteUsers", status |-> status,
                              adminId |-> adminId, id |-> id]
       IN  IF adminId = 0 THEN resp' = answer(401) /\ UNCHANGED <<users, wishlists>>
           ELSE IF ~\E a \in admin : a.isAdmin
           THEN resp' = answer(403) /\ UNCHANGED <<users, wishlists>>
           ELSE IF user = {}
           THEN resp' = answer(404) /\ UNCHANGED <<users, wishlists>>
           ELSE IF \E u \in user : u.isPrimaryAdmin
           THEN resp' = answer(403) /\ UNCHANGED <<users, wishlists>>
           ELSE IF id = adminId
           THEN resp' = answer(400) /\ UNCHANGED <<users, wishlists>>
           ELSE LET removed == deleteUser(users, id)
                IN  /\ users' = removed.rows
                    /\ wishlists' = IF impl = "db" /\ removed.deleted
                                    THEN Without(wishlists, "userId", id)
                                    ELSE wishlists
                    /\ resp' = answer(IF removed.deleted THEN 200 ELSE 500)
    /\ UNCHANGED <<catalogueVars, currentUserId>>

\* GET /api/init-db: initializeDatabase.  Without a pool (MemStorage) it
\* does nothing; on the database, when no user is flagged primary admin,
\* the user with the administrator's number is inserted or, if it exists,
\* made admin and primary admin.
InitDb ==
    /\ CanStart
    /\ IF impl = "db" /\ ~\E i \in 1..Len(users) : users[i].isPrimaryAdmin
       THEN LET held == {i \in 1..Len(users) :
                           users[i].whatsappNumber = AdminWhatsApp}
            IN  IF held = {}
                THEN /\ currentUserId <= MaxUsers
                     /\ users' = Append(users,
                                     [id |-> currentUserId,
                                      whatsappNumber |-> AdminWhatsApp,
                                      isAdmin |-> TRUE,
                                      isPrimaryAdmin |-> TRUE])
                     /\ currentUserId' = currentUserId + 1
                ELSE /\ users' = [i \in 1..Len(users) |->
                                    IF i \in held
                                    THEN [users[i] EXCEPT
                                            !.isAdmin = TRUE,
                                            !.isPrimaryAdmin = TRUE]
                                    ELSE users[i]]
                     /\ UNCHANGED currentUserId
       ELSE UNCHANGED userVars
    /\ resp' = [kind |-> "initDb", status |-> 200]
    /\ UNCHANGED <<catalogueVars, wishlists>>

\* storage.deleteUser(id), called on its own
DeleteUser(id) ==
    /\ CanStart
    /\ LET removed == deleteUser(users, id)
       IN  /\ users' = removed.rows
           /\ wishlists' = IF impl = "db" /\ removed.deleted
                           THEN Without(wishlists, "userId", id)
                           ELSE wishlists
           /\ resp' = [kind |-> "deleteUser", id |-> id,
                       result |-> removed.deleted]
    /\ UNCHANGED <<catalogueVars, currentUserId>>

\* req.session.userId of a request
Sessions == 0..MaxUsers

\* req.params.id of a request: the first admin and the user created first
Targets == 1..(Len(InitialUsers) + 1)

NextUsers ==
    \/ Deliver
    \/ \E number \in Numbers : Delivered /\ Register(number)
    \/ \E adminId \in Sessions : \E body \in PostBodies :
          Delivered /\ PostUsers(adminId, body)
    \/ \E adminId \in Sessions : \E id \in Targets :
          \E body \in PutBodies : Delivered /\ PutUsers(adminId, id, body)
    \/ \E adminId \in Sessions : \E id \in Targets :
          Delivered /\ DeleteUsers(adminId, id)
    \/ Delivered /\ InitDb

SpecUsers == Init /\ [][NextUsers]_vars

\* the same requests, and the store's deleteUser called on its own
NextUserStore ==
    \/ Deliver
    \/ \E number \in Numbers : Delivered /\ Register(number)
    \/ \E adminId \in Sessions : \E body \in PostBodies :
          Delivered /\ PostUsers(adminId, body)
    \/ \E adminId \in Sessions : \E id \in Targets :
          \E body \in PutBodies : Delivered /\ PutUsers(adminId, id, body)
    \/ \E adminId \in Sessions : \E id \in Targets :
          Delivered /\ DeleteUsers(adminId, id)
    \/ \E id \in Targets : Delivered /\ DeleteUser(id)

SpecUserStore == Init /\ [][NextUserStore]_vars

(***************************************************************************)
(* Claims about user management.                                           *)
(***************************************************************************)
\* the users flagged primary admin
PrimaryAdmins(rows) == {i \in 1..Len(rows) : rows[i].isPrimaryAdmin}

\* the user with the id is flagged primary admin
IsPrimaryAdmin(rows, id) == \E i \in PrimaryAdmins(rows) : rows[i].id = id

\* C18 as claimed: exactly one user has isPrimaryAdmin = true in every
\* state the user-management requests reach
C18_OnePrimaryAdmin == Cardinality(PrimaryAdmins(users)) = 1

\* C19: no step removes a user flagged primary admin; DELETE
\* /api/users/:id on such a user is refused and changes no user, whoever
\* sends it; deleteUser on such a user returns false and changes no user
C19_PrimaryAdminKept ==
    [][/\ \A i \in PrimaryAdmins(users) :
             \E j \in 1..Len(users') : users'[j].id = users[i].id
       /\ resp'.kind = "deleteUsers" /\ IsPrimaryAdmin(users, resp'.id) =>
             resp'.status \in {401, 403} /\ users' = users
       /\ resp'.kind = "deleteUser" /\ IsPrimaryAdmin(users, resp'.id) =>
             ~resp'.result /\ users' = users]_vars

\* C19 witness: the primary admin's own DELETE of its account is refused
C19_Witness ==
    /\ resp.kind = "deleteUsers"
    /\ resp.adminId = resp.id
    /\ IsPrimaryAdmin(users, resp.id)
    /\ resp.status = 403

ProductOf(rows, id) == CHOOSE p \in Range(rows) : p.id = id

\* a wishlist row with its product, as both stores return it
WithProduct(wishlist, rows) ==
    [id |-> wishlist.id, userId |-> wishlist.userId,
     productId |-> wishlist.productId,
     product |-> ProductOf(rows, wishlist.productId)]

\* MemStorage.getWishlistByUser: the user's rows, each with
\* this.products.get(productId); throws when that product is not stored
MemGetWishlistByUser(entries, rows, userId) ==
    LET userWishlists == SelectSeq(entries, LAMBDA w : w.userId = userId)
    IN  IF \E i \in 1..Len(userWishlists) :
              \A p \in Range(rows) : p.id # userWishlists[i].productId
        THEN Thrown
        ELSE Ok([i \in 1..Len(userWishlists) |->
                    WithProduct(userWishlists[i], rows)])

\* DatabaseStorage.getWishlistByUser: wishlists INNER JOIN products ON
\* productId = products.id WHERE userId = $1
DbGetWishlistByUser(entries, rows, userId) ==
    LET joined == SelectSeq(entries,
                            LAMBDA w : \E p \in Range(rows) : p.id = w.productId)
        userWishlists == SelectSeq(joined, LAMBDA w : w.userId = userId)
    IN  Ok([i \in 1..Len(userWishlists) |->
               WithProduct(userWishlists[i], rows)])

getWishlistByUser(store, entries, rows, userId) ==
    IF store = "mem" THEN MemGetWishlistByUser(entries, rows, userId)
    ELSE DbGetWishlistByUser(entries, rows, userId)

\* GET /api/wishlist: 401 without a session user, the store's rows, 500
\* when the store throws
GetWishlist(userId) ==
    /\ CanStart
    /\ IF userId = 0
       THEN resp' = [kind |-> "getWishlist", status |-> 401, userId |-> userId]
       ELSE LET wishlist == getWishlistByUser(impl, wishlists, products, userId)
            IN  resp' = [kind |-> "getWishlist",
                         status |-> IF wishlist.ok THEN 200 ELSE 500,
                         userId |-> userId, body |-> wishlist.rows]
    /\ UNCHANGED <<serverVars, userVars, impl, products, currentProductId, now, wishlists,
                   currentWishlistId, pc, loc>>

\* a number a visitor registers with
VisitorNumbers == {"n1"}

\* wishlist requests of the first two users, each once it has been created,
\* while products are deleted, a visitor registers and the store deletes a
\* user
NextWishlistJoin ==
    \/ Deliver
    \/ \E r \in Reqs : \E userId \in Targets :
          \E productId \in 1..Len(SampleProducts) :
             /\ Delivered
             /\ userId < currentUserId
             /\ PostWishlistCheck(r, userId, productId)
    \/ \E r \in Reqs : PostWishlistInsert(r)
    \/ \E id \in 1..Len(SampleProducts) : Delivered /\ DeleteProduct(id)
    \/ \E number \in VisitorNumbers : Delivered /\ Register(number)
    \/ \E id \in Targets : Delivered /\ DeleteUser(id)
    \/ \E userId \in SessionUsers : Delivered /\ GetWishlist(userId)

SpecWishlistJoin == Init /\ [][NextWishlistJoin]_vars

(***************************************************************************)
(* Claims about the wishlist and the records it refers to.                 *)
(***************************************************************************)
\* C21: every wishlist entry refers to a product that is stored and to a
\* user that is stored; deleting a product or a user leaves no entry of it
C21_EntriesReferToStored ==
    \A i \in 1..Len(wishlists) :
       /\ \E p \in Range(products) : p.id = wishlists[i].productId
       /\ \E u \in Range(users) : u.id = wishlists[i].userId

\* the user's entries whose product is stored, each with its product
StoredEntries(entries, rows, userId) ==
    {WithProduct(entries[i], rows) :
        i \in {j \in 1..Len(entries) :
                 /\ entries[j].userId = userId
                 /\ \E p \in Range(rows) : p.id = entries[j].productId}}

\* C22: GET /api/wishlist of a session user answers 200 with exactly the
\* user's entries whose product is stored, each paired with that product,
\* whatever was added and whichever products were deleted before
C22_WishlistOfStoredProducts ==
    (resp.kind = "getWishlist" /\ resp.userId # 0) =>
       /\ resp.status = 200
       /\ Range(resp.body) = StoredEntries(wishlists, products, resp.userId)
       /\ Len(resp.body) =
             Cardinality(StoredEntries(wishlists, products, resp.userId))

\* C23: no two stored users have the same whatsappNumber, whatever was
\* registered and whichever numbers PUT /api/users/:id has set
C23_UniqueNumbers ==
    \A i, j \in 1..Len(users) :
       users[i].whatsappNumber = users[j].whatsappNumber => i = j

(***************************************************************************)
(* Listings while the catalogue is written: a product is created or        *)
(* deleted whenever the scheduling lets a request start, also between the  *)
(* page query and the count query of a listing.                            *)
(***************************************************************************)
RaceQueries ==
    {NoQuery,
     [NoQuery EXCEPT !.category = {Str_a}],
     [NoQuery EXCEPT !.search = {Str_a}],
     [NoQuery EXCEPT !.limit = Digits(1)]}

NextListingRace ==
    \/ Deliver
    \/ \E input \in {Input3, Input4} : Delivered /\ CreateProduct(input)
    \/ \E id \in 1..Len(SampleProducts) : Delivered /\ DeleteProduct(id)
    \/ \E r \in Reqs : \E q \in RaceQueries : Delivered /\ ListPage(r, q)
    \/ \E r \in Reqs : ListCount(r)

SpecListingRace == Init /\ [][NextListingRace]_vars

\* C24: the items of a listing come from the state of the page query and
\* the total from the state of the count query.  When the products are the
\* same in both states, total is the number of matches of the state the
\* items were read from; on MemStorage the two states are always the same
C24_TotalAgreesUnlessWritten ==
    (resp.kind = "list" /\ resp.status = 200) =>
       /\ resp.readFrom = products =>
             resp.total = Len(Unpaginated(resp.readFrom, resp.q).rows)
       /\ impl = "mem" => resp.readFrom = products

\* C24 witness: a write came between the two queries, and total differs
\* from the number of matches of the state the items were read from
C24_Witness ==
    /\ resp.kind = "list"
    /\ resp.status = 200
    /\ resp.readFrom # products
    /\ resp.total # Len(Unpaginated(resp.readFrom, resp.q).rows)

(***************************************************************************)
(* The ids the store assigns: products, users and wishlist entries are     *)
(* created and deleted in any order.                                       *)
(***************************************************************************)
NextIds ==
    \/ Deliver
    \/ \E input \in {Input3} : Delivered /\ CreateProduct(input)
    \/ \E inputs \in BulkInputs : Delivered /\ BulkCreateProducts(inputs)
    \/ \E id \in 1..Len(SampleProducts) :
          \E updateData \in UpdateInputs :
             Delivered /\ UpdateProduct(id, updateData)
    \/ \E id \in 1..(Len(SampleProducts) + 1) : Delivered /\ DeleteProduct(id)
    \/ \E number \in VisitorNumbers : Delivered /\ Register(number)
    \/ \E id \in Targets : Delivered /\ DeleteUser(id)
    \/ \E r \in {1} : \E userId \in {1} :
          \E productId \in 1..Len(SampleProducts) :
             Delivered /\ PostWishlistCheck(r, userId, productId)
    \/ \E r \in Reqs : PostWishlistInsert(r)
    \/ \E userId \in {1} : \E productId \in 1..Len(SampleProducts) :
          Delivered /\ DeleteWishlist(userId, productId)

SpecIds == Init /\ [][NextIds]_vars

\* the ids of the records, in the order the store holds them
IdsOf(rows) == [i \in 1..Len(rows) |-> rows[i].id]

\* the ids are strictly increasing in the order of creation and below the
\* counter of their kind
Increasing(ids, counter) ==
    /\ \A i \in 1..Len(ids) : ids[i] < counter
    /\ \A i, j \in 1..Len(ids) : i < j => ids[i] < ids[j]

\* a step gives new records ids from the counter on, never lowers the
\* counter, and leaves the id of every record that stays
Assigned(ids, counter, newIds, newCounter) ==
    /\ newCounter >= counter
    /\ \A k \in Range(newIds) \ Range(ids) : counter <= k /\ k < newCounter
    /\ Len(newIds) = Len(ids) => newIds = ids
    /\ Increasing(newIds, newCounter)

\* C25: in MemStorage the ids of each kind (product, user, wishlist entry)
\* are strictly increasing and never used again, also after
\* bulkCreateProducts and after deletions, and no step changes the id of
\* a stored record
C25_IdsNeverReused ==
    [][impl = "mem" =>
          /\ Assigned(IdsOf(products), currentProductId,
                      IdsOf(products'), currentProductId')
          /\ Assigned(IdsOf(users), currentUserId,
                      IdsOf(users'), currentUserId')
          /\ Assigned(IdsOf(wishlists), currentWishlistId,
                      IdsOf(wishlists'), currentWishlistId')]_vars

\* C25 witness: MemStorage after deletions and later creations of every
\* kind: products 1 and 2, user 2 and wishlist entry 1 are gone and the
\* records created since hold ids above them
C25_Witness ==
    /\ impl = "mem"
    /\ Len(products) >= 2 /\ \A p \in Range(products) : p.id > 2
    /\ \E u \in Range(users) : u.id > 2
    /\ \A u \in Range(users) : u.id # 2
    /\ Len(wishlists) >= 1 /\ \A w \in Range(wishlists) : w.id > 1

\* C26: DELETE /api/wishlist/:productId leaves every entry that is not of
\* the pair (session user, product) as it was: removeFromWishlist deletes
\* at most the entry of that exact pair
C26_OtherEntriesKept ==
    (resp.kind = "deleteWishlist" /\ resp.status # 401) =>
       \A i \in 1..Len(resp.before) :
          (resp.before[i].userId # resp.userId
             \/ resp.before[i].productId # resp.productId)
          => resp.before[i] \in Range(wishlists)

(***************************************************************************)
(* Claims about the facet values under more and fewer constraints.         *)
(***************************************************************************)
\* the query with the parameter of facet g left out
WithoutFacet(q, g) == [q EXCEPT ![g] = {}]

\* C27: for the store state of a facet response, the values returned are
\* among the values returned for the same request with any one constraint
\* on another facet left out, and among the store's list of all distinct
\* values of the facet (getCategories / getFinishes / getMaterials)
C27_NarrowingMonotone ==
    resp.kind = "filters" =>
       /\ \A g \in Facets \ {resp.facet} :
             Range(resp.body) \subseteq
                Range(getAvailable(impl, resp.facet, products,
                         FacetFilters(resp.facet, WithoutFacet(resp.q, g))))
       /\ Range(resp.body) \subseteq
             Range(getValues(impl, resp.facet, products))

\* C27 witness: a facet response with a value, under a constraint without
\* which the same request returns more values
C27_Witness ==
    /\ resp.kind = "filters"
    /\ resp.body # << >>
    /\ \E g \in Facets \ {resp.facet} :
          /\ Supplied(resp.q[g])
          /\ Len(getAvailable(impl, resp.facet, products,
                    FacetFilters(resp.facet, WithoutFacet(resp.q, g))))
                > Len(resp.body)
    /\ Len(getValues(impl, resp.facet, products)) > Len(resp.body)

(***************************************************************************)
(* A client that walks the pages of a listing: page 1, then the next page  *)
(* while the response says there is one, with no write in between.         *)
(***************************************************************************)
\* the rows in the opposite order
Reverse(rows) == [i \in 1..Len(rows) |-> rows[Len(rows) + 1 - i]]

\* the orders in which one statement may read the products.  A Map
\* iterates in insertion order.  SELECT promises no order among the rows
\* that its ORDER BY, if it has one, leaves tied, and the statements of
\* two pages differ in LIMIT and OFFSET, so each may read the table from
\* either end.
ScanOrders(store, rows) ==
    IF store = "mem" THEN {rows} ELSE {rows, Reverse(rows)}

\* req.query of the first request of a walk: limit absent, 1 or 2
WalkQueries ==
    {[NoQuery EXCEPT !.search = s, !.sortBy = k, !.limit = l] :
        s \in {{}, {Str_a}},
        k \in {{}, {"category"}},
        l \in {{}, Digits(1), Digits(2)}}

\* GET /api/products with no write between its two queries; items holds
\* the products of the pages read so far, in page order
ListWalk(q, page, items) ==
    /\ CanStart
    /\ \E scanned \in ScanOrders(impl, products) :
          LET answer == ListAnswer(impl, scanned, [q EXCEPT !.page = Digits(page)])
              limitNum == parseInt(OrDefault(q.limit, DefaultLimit))
          IN  resp' = [kind |-> "walk",
                       status |-> IF answer.ok THEN 200 ELSE 500,
                       q |-> q, page |-> page,
                       totalPages |-> TotalPages(answer.total, limitNum),
                       items |-> items \o answer.products]
    /\ UNCHANGED <<serverVars, userVars, impl, products, currentProductId, now, wishlists,
                   currentWishlistId, pc, loc>>

\* the client asks for page 1
FirstPage(q) == ListWalk(q, 1, << >>)

\* the client asks for the page after the one it has read
NextPage ==
    /\ resp.kind = "walk"
    /\ resp.status = 200
    /\ \E n \in resp.totalPages : resp.page < n
    /\ ListWalk(resp.q, resp.page + 1, resp.items)

NextPaging ==
    \/ Deliver
    \/ \E input \in {Input3, Input4} : Delivered /\ CreateProduct(input)
    \/ \E id \in 1..Len(SampleProducts) : Delivered /\ DeleteProduct(id)
    \/ \E q \in WalkQueries : Delivered /\ FirstPage(q)
    \/ NextPage

SpecPaging == Init /\ [][NextPaging]_vars

\* C28: when a client has read the pages 1..totalPages of a listing with
\* limit >= 1 from an unchanged store, the pages in page order are the
\* result of the same predicate and sortBy with no limit, so every
\* matching product is on exactly one page
C28_PagesPartitionResult ==
    (/\ resp.kind = "walk"
     /\ resp.status = 200
     /\ \E n \in resp.totalPages : resp.page >= n) =>
       \E scanned \in ScanOrders(impl, products) :
          resp.items = Unpaginated(scanned, resp.q).rows

(***************************************************************************)
(* runMigrations.  A run reads the migrations table once, then takes the   *)
(* migrations in filename order; each pending one runs in a transaction    *)
(* of its own: BEGIN, the SQL, INSERT INTO migrations, COMMIT.  Runs of    *)
(* two requests may be in flight together.  What a transaction has done is *)
(* seen by others from its COMMIT on.                                      *)
(***************************************************************************)
\* a migrations table with no constraint on filename
NeverRefused(rows, filename) == FALSE

\* filename is UNIQUE in the migrations table: the INSERT of a filename
\* that a committed row holds is refused
UniqueViolation(rows, filename) == filename \in Range(rows)

\* the run of a slot ends with an error thrown at the migration
MigrationThrows(r, filename) ==
    /\ pc' = [pc EXCEPT ![r] = "idle"]
    /\ loc' = [loc EXCEPT ![r] = NoLocals]
    /\ resp' = [kind |-> "runMigrations", ok |-> FALSE, run |-> r,
                filename |-> {filename}]
    /\ UNCHANGED <<migrations, applied>>

\* runMigrations up to the loop: nothing to do without a pool; else
\* CREATE TABLE IF NOT EXISTS migrations and SELECT filename FROM migrations
RunMigrations(r) ==
    /\ pc[r] = "idle"
    /\ CanStep(r)
    /\ IF impl = "mem"
       THEN /\ resp' = [kind |-> "runMigrations", ok |-> TRUE, run |-> r,
                        filename |-> {}]
            /\ UNCHANGED <<pc, loc>>
       ELSE /\ pc' = [pc EXCEPT ![r] = "loop"]
            /\ loc' = [loc EXCEPT ![r] =
                         [at |-> "loop",
                          executedMigrations |-> Range(migrations), k |-> 1]]
            /\ resp' = resp
    /\ UNCHANGED <<migrations, applied, mockFeedback, userVars, impl, products,
                   currentProductId, now, wishlists, currentWishlistId>>

\* the head of the loop: past the last migration the run is complete; a
\* migration read as executed is skipped; for a pending one, BEGIN
MigrationLoop(r) ==
    /\ pc[r] = "loop"
    /\ IF loc[r].k > Len(MigrationFiles)
       THEN /\ pc' = [pc EXCEPT ![r] = "idle"]
            /\ loc' = [loc EXCEPT ![r] = NoLocals]
            /\ resp' = [kind |-> "runMigrations", ok |-> TRUE, run |-> r,
                        filename |-> {}]
       ELSE IF MigrationFiles[loc[r].k] \in loc[r].executedMigrations
       THEN /\ loc' = [loc EXCEPT ![r].k = @ + 1]
            /\ UNCHANGED <<pc, resp>>
       ELSE /\ pc' = [pc EXCEPT ![r] = "sql"]
            /\ loc' = [loc EXCEPT ![r].at = "sql"]
            /\ resp' = resp
    /\ UNCHANGED <<migrations, applied, mockFeedback, userVars, impl, products,
                   currentProductId, now, wishlists, currentWishlistId>>

\* client.query(sql): when the statement fails, ROLLBACK and throw
MigrationSql(r, fails) ==
    /\ pc[r] = "sql"
    /\ IF fails
       THEN MigrationThrows(r, MigrationFiles[loc[r].k])
       ELSE /\ pc' = [pc EXCEPT ![r] = "insert"]
            /\ loc' = [loc EXCEPT ![r].at = "insert"]
            /\ UNCHANGED <<migrations, applied, resp>>
    /\ UNCHANGED <<mockFeedback, userVars, impl, products, currentProductId,
                   now, wishlists, currentWishlistId>>

\* INSERT INTO migrations (filename): it waits while another transaction
\* holds an uncommitted row of the filename, and is refused when a
\* committed row holds it; then ROLLBACK and throw
MigrationInsert(r) ==
    /\ pc[r] = "insert"
    /\ \A o \in Reqs \ {r} : pc[o] = "commit" => loc[o].k # loc[r].k
    /\ IF UniqueViolation(migrations, MigrationFiles[loc[r].k])
       THEN MigrationThrows(r, MigrationFiles[loc[r].k])
       ELSE /\ pc' = [pc EXCEPT ![r] = "commit"]
            /\ loc' = [loc EXCEPT ![r].at = "commit"]
            /\ UNCHANGED <<migrations, applied, resp>>
    /\ UNCHANGED <<mockFeedback, userVars, impl, products, currentProductId,
                   now, wishlists, currentWishlistId>>

\* COMMIT: the effects of the SQL and the row of the migrations table
\* become the database's, and the loop goes on
MigrationCommit(r) ==
    /\ pc[r] = "commit"
    /\ migrations' = Append(migrations, MigrationFiles[loc[r].k])
    /\ applied' = [applied EXCEPT ![MigrationFiles[loc[r].k]] = @ + 1]
    /\ pc' = [pc EXCEPT ![r] = "loop"]
    /\ loc' = [loc EXCEPT ![r].at = "loop", ![r].k = @ + 1]
    /\ UNCHANGED <<resp, mockFeedback, userVars, impl, products,
                   currentProductId, now, wishlists, currentWishlistId>>

NextMigrations ==
    \/ Deliver
    \/ \E r \in Reqs : RunMigrations(r)
    \/ \E r \in Reqs : MigrationLoop(r)
    \/ \E r \in Reqs : \E fails \in BOOLEAN : MigrationSql(r, fails)
    \/ \E r \in Reqs : MigrationInsert(r)
    \/ \E r \in Reqs : MigrationCommit(r)

SpecMigrations == Init /\ [][NextMigrations]_vars

(***************************************************************************)
(* Claims about the migrations.                                            *)
(***************************************************************************)
\* each migration is committed at most once, and its filename is in the
\* migrations table exactly when it is committed
RecordedIffCommitted ==
    \A m \in Range(MigrationFiles) :
       /\ applied[m] <= 1
       /\ m \in Range(migrations) <=> applied[m] = 1

\* a step that ends a run in the middle of a migration
Failing(r) == pc[r] \in {"sql", "insert", "commit"} /\ pc'[r] = "idle"

\* C29: over any runs of runMigrations, also after a failed run and with
\* two runs in flight, each migration's SQL is committed at most once and
\* its filename is recorded exactly when its effects are committed; a
\* migration that fails commits nothing and records nothing, and its run
\* ends there, before any later migration
C29_MigrationsOnce ==
    [][/\ RecordedIffCommitted
       /\ RecordedIffCommitted'
       /\ \A r \in Reqs :
             Failing(r) =>
                /\ migrations' = migrations
                /\ applied' = applied
                /\ resp'.kind = "runMigrations" /\ ~resp'.ok /\ resp'.run = r
                /\ loc'[r] = NoLocals]_vars

\* C29 witness: a run has failed at the second migration after the first
\* was committed: the first is recorded, the second is neither committed
\* nor recorded, and no run is in flight
C29_Witness ==
    /\ resp.kind = "runMigrations"
    /\ ~resp.ok
    /\ resp.filename = {MigrationFiles[2]}
    /\ applied[MigrationFiles[1]] = 1
    /\ applied[MigrationFiles[2]] = 0
    /\ MigrationFiles[2] \notin Range(migrations)
    /\ \A r \in Reqs : pc[r] = "idle"

(***************************************************************************)
(* POST /api/feedback and DELETE /api/feedback/:id on the array            *)
(* mockFeedback.  Neither handler awaits between reading and writing the   *)
(* array.                                                                  *)
(***************************************************************************)
\* feedback records the array may hold
MaxFeedback == 6

\* POST /api/feedback: 400 when insertFeedbackSchema rejects the body
\* (valid is FALSE); else the new record's id is mockFeedback.length + 1
PostFeedback(valid) ==
    /\ CanStart
    /\ IF ~valid
       THEN /\ resp' = [kind |-> "postFeedback", status |-> 400]
            /\ UNCHANGED mockFeedback
       ELSE /\ Len(mockFeedback) < MaxFeedback
            /\ LET newFeedback == Feedback(Len(mockFeedback) + 1)
               IN  /\ mockFeedback' = Append(mockFeedback, newFeedback)
                   /\ resp' = [kind |-> "postFeedback", status |-> 201,
                               body |-> newFeedback]
    /\ UNCHANGED <<migrations, applied, userVars, impl, products,
                   currentProductId, now, wishlists, currentWishlistId, pc, loc>>

\* DELETE /api/feedback/:id by the session user adminId: admins only;
\* findIndex takes the first record with the id, splice removes it
DeleteFeedback(adminId, feedbackId) ==
    /\ CanStart
    /\ LET admin == getUser(users, adminId)
           found == {i \in 1..Len(mockFeedback) :
                       mockFeedback[i].id = feedbackId}
           answer(status) == [kind |-> "deleteFeedback", status |-> status,
                              adminId |-> adminId, id |-> feedbackId]
       IN  IF adminId = 0
           THEN resp' = answer(401) /\ UNCHANGED mockFeedback
           ELSE IF (~\E a \in admin : a.isAdmin)
           THEN resp' = answer(403) /\ UNCHANGED mockFeedback
           ELSE IF found = {}
           THEN resp' = answer(404) /\ UNCHANGED mockFeedback
           ELSE LET index == CHOOSE i \in found : \A j \in found : i <= j
                IN  /\ mockFeedback' =
                          SubSeq(mockFeedback, 1, index - 1)
                             \o SubSeq(mockFeedback, index + 1,
                                       Len(mockFeedback))
                    /\ resp' = answer(200)
    /\ UNCHANGED <<migrations, applied, userVars, impl, products,
                   currentProductId, now, wishlists, currentWishlistId, pc, loc>>

NextFeedback ==
    \/ Deliver
    \/ \E valid \in BOOLEAN : Delivered /\ PostFeedback(valid)
    \/ \E adminId \in SessionUsers : \E feedbackId \in 1..MaxFeedback :
          Delivered /\ DeleteFeedback(adminId, feedbackId)

SpecFeedback == Init /\ [][NextFeedback]_vars

\* C30: after any POST /api/feedback and DELETE /api/feedback/:id the
\* stored feedback records have pairwise distinct ids
C30_DistinctFeedbackIds ==
    \A i, j \in 1..Len(mockFeedback) :
       mockFeedback[i].id = mockFeedback[j].id => i = j

(***************************************************************************)
(* The whole server: every request of every group.                         *)
(***************************************************************************)
Next ==
    \/ NextFacets
    \/ NextListing
    \/ NextWishlist
    \/ NextSentinel
    \/ NextCatalogue
    \/ NextUsers
    \/ NextUserStore
    \/ NextWishlistJoin
    \/ NextListingRace
    \/ NextIds
    \/ NextPaging
    \/ NextMigrations
    \/ NextFeedback

Spec == Init /\ [][Next]_vars

=============================================================================
